---------------------------- MODULE Spec2Model ----------------------------
(* A model of SortedUniqueVec (src/src/lib.rs): insert, merge and align.   *)
(* An element of type T is a record with a key, which is all that Ord and  *)
(* Eq look at, and a tag that tells apart two instances with equal keys.   *)
EXTENDS Integers, Sequences, FiniteSets, TLC

VARIABLES
    op,           \* the method being run: "insert", "merge" or "align"
    self_vec,     \* self.vec
    other_vec,    \* other.vec
    vec,          \* the local output Vec of merge / align
    left_iter,    \* index of the element left_iter.peek() yields
    right_iter,   \* index of the element right_iter.peek() yields
    left_count,   \* align's left_count
    right_count,  \* align's right_count
    pc,           \* position in the method
    calls         \* the calls made so far: closure calls, or insert calls

vars == <<op, self_vec, other_vec, vec, left_iter, right_iter,
          left_count, right_count, pc, calls>>

----------------------------------------------------------------------------
(* Bounds and the element type.                                            *)

MaxKey == 2

Keys == 0 .. MaxKey

Tags == {"a", "b"}

Elems == [key : Keys, tag : Tags]

\* Option::None, for a closure result and for an absent second element.
None == [key |-> -1, tag |-> "none"]

\* T's Ord: `<` compares keys only.
Less(x, y) == x.key < y.key

\* T's Eq: x.eq(&y).
Eq(x, y) == x.key = y.key

is_sorted_unique(slice) ==
    IF Len(slice) < 2
    THEN TRUE
    ELSE \A i \in 1 .. (Len(slice) - 1) : Less(slice[i], slice[i + 1])

KeysOf(s) == {s[i].key : i \in 1 .. Len(s)}

\* All sequences over S of length at most n.
SeqsUpTo(S, n) == UNION {[1 .. m -> S] : m \in 0 .. n}

\* The values a SortedUniqueVec can hold: strictly ascending sequences.
SortedUniqueVecs == {s \in SeqsUpTo(Elems, MaxKey + 1) : is_sorted_unique(s)}

----------------------------------------------------------------------------
(* Peekable iterators over the two inputs.                                 *)

LeftPeek == IF left_iter <= Len(self_vec) THEN self_vec[left_iter] ELSE None

RightPeek == IF right_iter <= Len(other_vec) THEN other_vec[right_iter] ELSE None

\* Take with the `else` branch lost: two equal values count as OneLeft.
TakeEqualAsOneLeft(l, r) ==
    IF l # None /\ r # None
    THEN IF Less(r, l) THEN "OneRight" ELSE "OneLeft"
    ELSE IF l # None THEN "AllLeft"
    ELSE IF r # None THEN "AllRight"
    ELSE "Break"

\* The `take` decision at the top of the loop of merge and of align.
Take(l, r) ==
    IF l # None /\ r # None
    THEN IF Less(l, r) THEN "OneLeft"
         ELSE IF Less(r, l) THEN "OneRight"
         ELSE "Both"
    ELSE IF l # None THEN "AllLeft"
    ELSE IF r # None THEN "AllRight"
    ELSE "Break"

\* One call of a closure: the Alignment case (or "choose_equal"), the
\* element(s) handed over, and what the closure returned.
Call(case, elem, other, ret) ==
    [case |-> case, elem |-> elem, other |-> other, ret |-> ret]

\* What the classifier of align may return, Option<T>: nothing, or any value
\* of T, with a key of the inputs or any other key, and any tag.
OptionT ==
    [key : Keys \cup KeysOf(self_vec) \cup KeysOf(other_vec), tag : Tags] \cup {None}

LeftOrRight == {"Left", "Right"}

----------------------------------------------------------------------------
(* align                                                                   *)

\* Classify without `assert!(value.eq(&new))`.
ClassifyUnchecked(case, value, other, ret, next) ==
    /\ calls' = Append(calls, Call(case, value, other, ret))
    /\ pc' = next
    /\ vec' = IF ret = None THEN vec ELSE Append(vec, ret)

\* `if let Some(new) = f(alignment) { assert!(value.eq(&new)); vec.push(new); }`
\* followed by the rest of the branch, which leaves pc at `next`.
Classify(case, value, other, ret, next) ==
    /\ calls' = Append(calls, Call(case, value, other, ret))
    /\ IF ret = None
       THEN vec' = vec /\ pc' = next
       ELSE IF Eq(value, ret)
            THEN vec' = Append(vec, ret) /\ pc' = next
            ELSE vec' = vec /\ pc' = "panic_eq"

\* AlignOneLeft with `left_count += 1` moved into the `if let Some(new)`.
AlignOneLeftCountsKept ==
    /\ op = "align" /\ pc = "loop"
    /\ Take(LeftPeek, RightPeek) = "OneLeft"
    /\ \E ret \in OptionT :
          /\ Classify(IF right_count = 0 THEN "ExcessLeftHead" ELSE "DisjointLeft",
                      LeftPeek, None, ret, "loop")
          /\ left_count' = IF ret # None /\ pc' # "panic_eq"
                           THEN left_count + 1 ELSE left_count
    /\ left_iter' = left_iter + 1
    /\ UNCHANGED <<op, self_vec, other_vec, right_iter, right_count>>

AlignOneLeft ==
    /\ op = "align" /\ pc = "loop"
    /\ Take(LeftPeek, RightPeek) = "OneLeft"
    /\ \E ret \in OptionT :
          Classify(IF right_count = 0 THEN "ExcessLeftHead" ELSE "DisjointLeft",
                   LeftPeek, None, ret, "loop")
    /\ left_iter' = left_iter + 1
    /\ left_count' = IF pc' = "panic_eq" THEN left_count ELSE left_count + 1
    /\ UNCHANGED <<op, self_vec, other_vec, right_iter, right_count>>

\* AlignOneRight with the test of the OneLeft branch, `right_count == 0`.
AlignOneRightTestsRightCount ==
    /\ op = "align" /\ pc = "loop"
    /\ Take(LeftPeek, RightPeek) = "OneRight"
    /\ \E ret \in OptionT :
          Classify(IF right_count = 0 THEN "ExcessRightHead" ELSE "DisjointRight",
                   RightPeek, None, ret, "loop")
    /\ right_iter' = right_iter + 1
    /\ right_count' = IF pc' = "panic_eq" THEN right_count ELSE right_count + 1
    /\ UNCHANGED <<op, self_vec, other_vec, left_iter, left_count>>

\* AlignOneRight without `vec.push(new)`.
AlignOneRightNoPush ==
    /\ op = "align" /\ pc = "loop"
    /\ Take(LeftPeek, RightPeek) = "OneRight"
    /\ \E ret \in OptionT :
          /\ calls' = Append(calls, Call(IF left_count = 0 THEN "ExcessRightHead"
                                         ELSE "DisjointRight", RightPeek, None, ret))
          /\ pc' = IF ret = None \/ Eq(RightPeek, ret) THEN "loop" ELSE "panic_eq"
    /\ vec' = vec
    /\ right_iter' = right_iter + 1
    /\ right_count' = IF pc' = "panic_eq" THEN right_count ELSE right_count + 1
    /\ UNCHANGED <<op, self_vec, other_vec, left_iter, left_count>>

AlignOneRight ==
    /\ op = "align" /\ pc = "loop"
    /\ Take(LeftPeek, RightPeek) = "OneRight"
    /\ \E ret \in OptionT :
          Classify(IF left_count = 0 THEN "ExcessRightHead" ELSE "DisjointRight",
                   RightPeek, None, ret, "loop")
    /\ right_iter' = right_iter + 1
    /\ right_count' = IF pc' = "panic_eq" THEN right_count ELSE right_count + 1
    /\ UNCHANGED <<op, self_vec, other_vec, left_iter, left_count>>

\* AlignBoth without `right_count += 1`.
AlignBothNoRightCount ==
    /\ op = "align" /\ pc = "loop"
    /\ Take(LeftPeek, RightPeek) = "Both"
    /\ \E ret \in OptionT :
          Classify("Match", LeftPeek, RightPeek, ret, "loop")
    /\ left_iter' = left_iter + 1
    /\ right_iter' = right_iter + 1
    /\ left_count' = IF pc' = "panic_eq" THEN left_count ELSE left_count + 1
    /\ UNCHANGED <<op, self_vec, other_vec, right_count>>

\* AlignBoth without `right_iter.next()`.
AlignBothLeftOnly ==
    /\ op = "align" /\ pc = "loop"
    /\ Take(LeftPeek, RightPeek) = "Both"
    /\ \E ret \in OptionT :
          Classify("Match", LeftPeek, RightPeek, ret, "loop")
    /\ left_iter' = left_iter + 1
    /\ left_count' = IF pc' = "panic_eq" THEN left_count ELSE left_count + 1
    /\ right_count' = IF pc' = "panic_eq" THEN right_count ELSE right_count + 1
    /\ UNCHANGED <<op, self_vec, other_vec, right_iter>>

AlignBoth ==
    /\ op = "align" /\ pc = "loop"
    /\ Take(LeftPeek, RightPeek) = "Both"
    /\ \E ret \in OptionT :
          Classify("Match", LeftPeek, RightPeek, ret, "loop")
    /\ left_iter' = left_iter + 1
    /\ right_iter' = right_iter + 1
    /\ left_count' = IF pc' = "panic_eq" THEN left_count ELSE left_count + 1
    /\ right_count' = IF pc' = "panic_eq" THEN right_count ELSE right_count + 1
    /\ UNCHANGED <<op, self_vec, other_vec>>

\* AlignAllLeft that classifies as the OneLeft branch does.
AlignAllLeftAsOneLeft ==
    /\ op = "align"
    /\ \/ pc = "loop" /\ Take(LeftPeek, RightPeek) = "AllLeft"
       \/ pc = "all_left" /\ LeftPeek # None
    /\ \E ret \in OptionT :
          Classify(IF right_count = 0 THEN "ExcessLeftHead" ELSE "DisjointLeft",
                   LeftPeek, None, ret, "all_left")
    /\ left_iter' = left_iter + 1
    /\ UNCHANGED <<op, self_vec, other_vec, right_iter, left_count, right_count>>

\* Take::AllLeft: one iteration of `for item in left_iter`.
AlignAllLeft ==
    /\ op = "align"
    /\ \/ pc = "loop" /\ Take(LeftPeek, RightPeek) = "AllLeft"
       \/ pc = "all_left" /\ LeftPeek # None
    /\ \E ret \in OptionT :
          Classify("ExcessLeftTail", LeftPeek, None, ret, "all_left")
    /\ left_iter' = left_iter + 1
    /\ UNCHANGED <<op, self_vec, other_vec, right_iter, left_count, right_count>>

\* AlignAllRight with the Alignment case of the AllLeft branch.
AlignAllRightAsLeftTail ==
    /\ op = "align"
    /\ \/ pc = "loop" /\ Take(LeftPeek, RightPeek) = "AllRight"
       \/ pc = "all_right" /\ RightPeek # None
    /\ \E ret \in OptionT :
          Classify("ExcessLeftTail", RightPeek, None, ret, "all_right")
    /\ right_iter' = right_iter + 1
    /\ UNCHANGED <<op, self_vec, other_vec, left_iter, left_count, right_count>>

\* Take::AllRight: one iteration of `for item in right_iter`.
AlignAllRight ==
    /\ op = "align"
    /\ \/ pc = "loop" /\ Take(LeftPeek, RightPeek) = "AllRight"
       \/ pc = "all_right" /\ RightPeek # None
    /\ \E ret \in OptionT :
          Classify("ExcessRightTail", RightPeek, None, ret, "all_right")
    /\ right_iter' = right_iter + 1
    /\ UNCHANGED <<op, self_vec, other_vec, left_iter, left_count, right_count>>

\* The three `break`s, then `debug_assert!(is_sorted_unique(&vec))` and the
\* return.  The assertion is compiled in debug builds only.
Finish ==
    /\ op \in {"align", "merge"}
    /\ \/ pc = "loop" /\ Take(LeftPeek, RightPeek) = "Break"
       \/ pc = "all_left" /\ LeftPeek = None
       \/ pc = "all_right" /\ RightPeek = None
    /\ pc' \in (IF is_sorted_unique(vec) THEN {"done"} ELSE {"done", "panic_sorted"})
    /\ UNCHANGED <<op, self_vec, other_vec, vec, left_iter, right_iter,
                   left_count, right_count, calls>>

----------------------------------------------------------------------------
(* merge                                                                   *)

\* MergeOneLeft with `left_iter.peek()` in place of `left_iter.next()`.
MergeOneLeftPeekOnly ==
    /\ op = "merge" /\ pc = "loop"
    /\ Take(LeftPeek, RightPeek) = "OneLeft"
    /\ vec' = Append(vec, LeftPeek)
    /\ UNCHANGED <<op, self_vec, other_vec, left_iter, right_iter, left_count,
                   right_count, pc, calls>>

MergeOneLeft ==
    /\ op = "merge" /\ pc = "loop"
    /\ Take(LeftPeek, RightPeek) = "OneLeft"
    /\ vec' = Append(vec, LeftPeek)
    /\ left_iter' = left_iter + 1
    /\ UNCHANGED <<op, self_vec, other_vec, right_iter, left_count, right_count,
                   pc, calls>>

MergeOneRight ==
    /\ op = "merge" /\ pc = "loop"
    /\ Take(LeftPeek, RightPeek) = "OneRight"
    /\ vec' = Append(vec, RightPeek)
    /\ right_iter' = right_iter + 1
    /\ UNCHANGED <<op, self_vec, other_vec, left_iter, left_count, right_count,
                   pc, calls>>

\* Chosen that ignores choose_equal's answer.
ChosenAlwaysLeft(left_value, right_value, choice) == left_value

\* The value pushed for two equal values, given choose_equal's answer.
Chosen(left_value, right_value, choice) ==
    IF choice = "Left" THEN left_value ELSE right_value

\* MergeBoth without `right_iter.next()`.
MergeBothLeftOnly ==
    /\ op = "merge" /\ pc = "loop"
    /\ Take(LeftPeek, RightPeek) = "Both"
    /\ \E choice \in LeftOrRight :
          /\ calls' = Append(calls, Call("choose_equal", LeftPeek, RightPeek, choice))
          /\ vec' = Append(vec, Chosen(LeftPeek, RightPeek, choice))
    /\ left_iter' = left_iter + 1
    /\ UNCHANGED <<op, self_vec, other_vec, right_iter, left_count, right_count, pc>>

MergeBoth ==
    /\ op = "merge" /\ pc = "loop"
    /\ Take(LeftPeek, RightPeek) = "Both"
    /\ \E choice \in LeftOrRight :
          /\ calls' = Append(calls, Call("choose_equal", LeftPeek, RightPeek, choice))
          /\ vec' = Append(vec, Chosen(LeftPeek, RightPeek, choice))
    /\ left_iter' = left_iter + 1
    /\ right_iter' = right_iter + 1
    /\ UNCHANGED <<op, self_vec, other_vec, left_count, right_count, pc>>

\* MergeAllLeft that takes each item out of self.vec instead of iterating.
MergeAllLeftDrains ==
    /\ op = "merge"
    /\ \/ pc = "loop" /\ Take(LeftPeek, RightPeek) = "AllLeft"
       \/ pc = "all_left" /\ LeftPeek # None
    /\ vec' = Append(vec, LeftPeek)
    /\ self_vec' = SubSeq(self_vec, 1, left_iter - 1)
                     \o SubSeq(self_vec, left_iter + 1, Len(self_vec))
    /\ pc' = "all_left"
    /\ UNCHANGED <<op, other_vec, left_iter, right_iter, left_count, right_count,
                   calls>>

MergeAllLeft ==
    /\ op = "merge"
    /\ \/ pc = "loop" /\ Take(LeftPeek, RightPeek) = "AllLeft"
       \/ pc = "all_left" /\ LeftPeek # None
    /\ vec' = Append(vec, LeftPeek)
    /\ left_iter' = left_iter + 1
    /\ pc' = "all_left"
    /\ UNCHANGED <<op, self_vec, other_vec, right_iter, left_count, right_count,
                   calls>>

MergeAllRight ==
    /\ op = "merge"
    /\ \/ pc = "loop" /\ Take(LeftPeek, RightPeek) = "AllRight"
       \/ pc = "all_right" /\ RightPeek # None
    /\ vec' = Append(vec, RightPeek)
    /\ right_iter' = right_iter + 1
    /\ pc' = "all_right"
    /\ UNCHANGED <<op, self_vec, other_vec, left_iter, left_count, right_count,
                   calls>>

----------------------------------------------------------------------------
(* The specification of merge and align over all bounded inputs.           *)

\* The state at the top of the loop, after the `let mut` lines.
Start(o, a, b) ==
    /\ op = o
    /\ self_vec = a
    /\ other_vec = b
    /\ vec = <<>>
    /\ left_iter = 1
    /\ right_iter = 1
    /\ left_count = 0
    /\ right_count = 0
    /\ pc = "loop"
    /\ calls = <<>>

Init ==
    \E o \in {"merge", "align"} : \E a \in SortedUniqueVecs : \E b \in SortedUniqueVecs :
        Start(o, a, b)

Next ==
    \/ AlignOneLeft
    \/ AlignOneRight
    \/ AlignBoth
    \/ AlignAllLeft
    \/ AlignAllRight
    \/ MergeOneLeft
    \/ MergeOneRight
    \/ MergeBoth
    \/ MergeAllLeft
    \/ MergeAllRight
    \/ Finish

Spec == Init /\ [][Next]_vars

\* merge and align run to their end: the loop goes on as long as it can, and
\* a closure that is called returns.
SpecFair == Init /\ [][Next]_vars /\ WF_vars(Next)

----------------------------------------------------------------------------
(* The inputs of test_merge and test_align, and the same two the other way *)
(* round.                                                                  *)

\* The vector of integers ks, as elements.
VecOf(ks) == [i \in 1 .. Len(ks) |-> [key |-> ks[i], tag |-> "a"]]

TestS1 == VecOf(<<0, 1, 5, 8>>)

TestS2 == VecOf(<<1, 5, 7, 9, 55>>)

InitExample ==
    \E o \in {"merge", "align"} :
        \/ Start(o, TestS1, TestS2)
        \/ Start(o, TestS2, TestS1)

SpecExample == InitExample /\ [][Next]_vars

----------------------------------------------------------------------------
(* insert                                                                  *)

\* slice::binary_search on s[lo .. hi), 0-based as in Rust: Ok(index of an
\* equal element) or Err(index where x keeps the slice sorted).
RECURSIVE binary_search(_, _, _, _)
binary_search(s, x, lo, hi) ==
    IF lo >= hi
    THEN [ok |-> FALSE, idx |-> lo]
    ELSE LET mid == (lo + hi) \div 2
         IN  IF Less(s[mid + 1], x) THEN binary_search(s, x, mid + 1, hi)
             ELSE IF Less(x, s[mid + 1]) THEN binary_search(s, x, lo, mid)
             ELSE [ok |-> TRUE, idx |-> mid]

\* Vec::push in place of Vec::insert.
VecInsertAtEnd(s, idx, element) == Append(s, element)

\* Vec::insert(idx, element), idx 0-based.
VecInsert(s, idx, element) ==
    [i \in 1 .. (Len(s) + 1) |->
        IF i <= idx THEN s[i]
        ELSE IF i = idx + 1 THEN element
        ELSE s[i - 1]]

\* Insert that overwrites an equal element and then panics.
InsertOverwrites(element) ==
    /\ op = "insert" /\ pc = "idle"
    /\ calls' = Append(calls, Call("insert", element, None, None))
    /\ LET found == binary_search(self_vec, element, 0, Len(self_vec))
       IN  IF found.ok
           THEN /\ pc' = "panic_dup"
                /\ self_vec' = [self_vec EXCEPT ![found.idx + 1] = element]
           ELSE pc' = "idle" /\ self_vec' = VecInsert(self_vec, found.idx, element)
    /\ UNCHANGED <<op, other_vec, vec, left_iter, right_iter, left_count,
                   right_count>>

Insert(element) ==
    /\ op = "insert" /\ pc = "idle"
    /\ calls' = Append(calls, Call("insert", element, None, None))
    /\ LET found == binary_search(self_vec, element, 0, Len(self_vec))
       IN  IF found.ok
           THEN pc' = "panic_dup" /\ self_vec' = self_vec
           ELSE pc' = "idle" /\ self_vec' = VecInsert(self_vec, found.idx, element)
    /\ UNCHANGED <<op, other_vec, vec, left_iter, right_iter, left_count,
                   right_count>>

\* SortedUniqueVec::new(), then any inserts.
InitInsert ==
    /\ op = "insert"
    /\ self_vec = <<>>
    /\ other_vec = <<>>
    /\ vec = <<>>
    /\ left_iter = 1
    /\ right_iter = 1
    /\ left_count = 0
    /\ right_count = 0
    /\ pc = "idle"
    /\ calls = <<>>

NextInsert == \E element \in Elems : Insert(element)

SpecInsert == InitInsert /\ [][NextInsert]_vars

----------------------------------------------------------------------------
(* The free function align of src/src/align.rs, as a step on the record s  *)
(* of its arguments and locals.                                            *)

\* The state at the top of the loop: a.as_ref() and b.as_ref() are the two
\* vectors, iterated from their first elements.
align_start(a, b) ==
    [a |-> a, b |-> b, vec |-> <<>>, left_iter |-> 1, right_iter |-> 1,
     left_count |-> 0, right_count |-> 0, pc |-> "loop", calls |-> <<>>]

align_left_peek(s) == IF s.left_iter <= Len(s.a) THEN s.a[s.left_iter] ELSE None

align_right_peek(s) == IF s.right_iter <= Len(s.b) THEN s.b[s.right_iter] ELSE None

align_take(s) ==
    LET l == align_left_peek(s)
        r == align_right_peek(s)
    IN  IF l # None /\ r # None
        THEN IF Less(l, r) THEN "OneLeft"
             ELSE IF Less(r, l) THEN "OneRight"
             ELSE "Both"
        ELSE IF l # None /\ r = None THEN "AllLeft"
        ELSE IF l = None /\ r # None THEN "AllRight"
        ELSE "Break"

\* `if let Some(new) = f(alignment) { assert!(value.eq(&new)); vec.push(new); }`
align_classify(s, case, value, other, ret, next) ==
    LET called == [s EXCEPT !.calls = Append(s.calls, Call(case, value, other, ret))]
    IN  IF ret = None
        THEN [called EXCEPT !.pc = next]
        ELSE IF Eq(value, ret)
             THEN [called EXCEPT !.vec = Append(s.vec, ret), !.pc = next]
             ELSE [called EXCEPT !.pc = "panic_eq"]

\* `left_count += 1`, `right_count += 1`: not reached after a failed assert.
align_count(t, left, right) ==
    IF t.pc = "panic_eq"
    THEN t
    ELSE [t EXCEPT !.left_count = t.left_count + left,
                   !.right_count = t.right_count + right]

\* `break`, `debug_assert!(is_sorted_unique(&vec))` and the return.
align_finish(s) ==
    {[s EXCEPT !.pc = p] :
        p \in (IF is_sorted_unique(s.vec) THEN {"done"} ELSE {"done", "panic_sorted"})}

align_all_left(s, ret) ==
    [align_classify(s, "ExcessLeftTail", align_left_peek(s), None, ret, "all_left")
        EXCEPT !.left_iter = s.left_iter + 1]

align_all_right(s, ret) ==
    [align_classify(s, "ExcessRightTail", align_right_peek(s), None, ret, "all_right")
        EXCEPT !.right_iter = s.right_iter + 1]

\* The states one step on from s, when the classifier, if called, returns ret.
align_step(s, ret) ==
    IF s.pc = "loop"
    THEN CASE align_take(s) = "OneLeft" ->
                {align_count(
                    [align_classify(s, IF s.right_count = 0 THEN "ExcessLeftHead"
                                       ELSE "DisjointLeft",
                                    align_left_peek(s), None, ret, "loop")
                        EXCEPT !.left_iter = s.left_iter + 1], 1, 0)}
           [] align_take(s) = "OneRight" ->
                {align_count(
                    [align_classify(s, IF s.left_count = 0 THEN "ExcessRightHead"
                                       ELSE "DisjointRight",
                                    align_right_peek(s), None, ret, "loop")
                        EXCEPT !.right_iter = s.right_iter + 1], 0, 1)}
           [] align_take(s) = "Both" ->
                {align_count(
                    [align_classify(s, "Match", align_left_peek(s),
                                    align_right_peek(s), ret, "loop")
                        EXCEPT !.left_iter = s.left_iter + 1,
                               !.right_iter = s.right_iter + 1], 1, 1)}
           [] align_take(s) = "AllLeft" -> {align_all_left(s, ret)}
           [] align_take(s) = "AllRight" -> {align_all_right(s, ret)}
           [] OTHER -> align_finish(s)
    ELSE IF s.pc = "all_left"
    THEN IF align_left_peek(s) # None THEN {align_all_left(s, ret)} ELSE align_finish(s)
    ELSE IF s.pc = "all_right"
    THEN IF align_right_peek(s) # None THEN {align_all_right(s, ret)} ELSE align_finish(s)
    ELSE {}

----------------------------------------------------------------------------
(* push: the ordered append of the design, which src/src/lib.rs does not   *)
(* have; merge and align append to a plain Vec with Vec::push.             *)

\* The keys of the example: 3 pushed after 0, 5 and 9.
PushExampleKeys == {0, 3, 5, 9}

PushElems == [key : Keys \cup PushExampleKeys, tag : Tags]

\* Whether element may be appended to s: s is empty or its last element is
\* strictly smaller.
PushAllowed(s, element) == Len(s) = 0 \/ Less(s[Len(s)], element)

Push(element) ==
    /\ op = "push" /\ pc = "idle"
    /\ calls' = Append(calls, Call("push", element, None, None))
    /\ IF PushAllowed(self_vec, element)
       THEN pc' = "idle" /\ self_vec' = Append(self_vec, element)
       ELSE pc' = "panic_order" /\ self_vec' = self_vec
    /\ UNCHANGED <<op, other_vec, vec, left_iter, right_iter, left_count,
                   right_count>>

\* SortedUniqueVec::new() followed by pushes, or a merge or an align.
InitPush ==
    \/ /\ op = "push"
       /\ self_vec = <<>>
       /\ other_vec = <<>>
       /\ vec = <<>>
       /\ left_iter = 1
       /\ right_iter = 1
       /\ left_count = 0
       /\ right_count = 0
       /\ pc = "idle"
       /\ calls = <<>>
    \/ Init

NextPush ==
    \/ \E element \in PushElems : Push(element)
    \/ Next

SpecPush == InitPush /\ [][NextPush]_vars

----------------------------------------------------------------------------
(* Properties.                                                             *)

SharedKeys == KeysOf(self_vec) \cap KeysOf(other_vec)

UnionKeys == KeysOf(self_vec) \cup KeysOf(other_vec)

\* The method returned: no panic.
Returned == pc = "done"

\* C1: the output of merge, and of align with a classifier that returns
\* nothing or a value equal to the element it was given, is strictly
\* ascending, and the final is_sorted_unique assertion never fails.
C1_OutputSortedUnique ==
    /\ pc # "panic_sorted"
    /\ (op \in {"merge", "align"} /\ Returned) => is_sorted_unique(vec)

\* An align run that returns three values from overlapping inputs, one of
\* them a substitute for the element classified.
C1_Witness ==
    /\ op = "align" /\ Returned
    /\ Len(vec) = 3
    /\ SharedKeys # {}
    /\ \E i \in 1 .. Len(calls) :
          calls[i].ret # None /\ calls[i].ret # calls[i].elem

\* C2: the keys of merge's output are the union of the inputs' keys, each
\* exactly once: the length is |A| + |B| minus the number of shared keys.
C2_MergeKeysAreUnion ==
    (op = "merge" /\ Returned) =>
        /\ KeysOf(vec) = UnionKeys
        /\ Len(vec) = Cardinality(KeysOf(vec))
        /\ Len(vec) = Len(self_vec) + Len(other_vec) - Cardinality(SharedKeys)

\* A merge of overlapping inputs, each with a key the other lacks.
C2_Witness ==
    /\ op = "merge" /\ Returned
    /\ SharedKeys # {}
    /\ KeysOf(self_vec) \ KeysOf(other_vec) # {}
    /\ KeysOf(other_vec) \ KeysOf(self_vec) # {}

Range(s) == {s[i] : i \in 1 .. Len(s)}

KeySeq(s) == [i \in 1 .. Len(s) |-> s[i].key]

\* The element of s with key k.
ElemWithKey(s, k) == s[CHOOSE i \in 1 .. Len(s) : s[i].key = k]

\* The integers of S in ascending order.
RECURSIVE Ascending(_)
Ascending(S) ==
    IF S = {}
    THEN <<>>
    ELSE LET m == CHOOSE x \in S : \A y \in S : x <= y
         IN  <<m>> \o Ascending(S \ {m})

\* The sorted union of the inputs, with the left instance of a shared key.
UnionPreferLeft ==
    LET ks == Ascending(UnionKeys)
    IN  [i \in 1 .. Len(ks) |->
            IF ks[i] \in KeysOf(self_vec)
            THEN ElemWithKey(self_vec, ks[i])
            ELSE ElemWithKey(other_vec, ks[i])]

\* align(TestS1, TestS2, f), as in test_align.
ExampleRun == op = "align" /\ self_vec = TestS1 /\ other_vec = TestS2

\* The classification C3 states for each key of the example.
ClaimedCase(k) ==
    CASE k = 0 -> "ExcessLeftHead"
      [] k \in {1, 5} -> "Match"
      [] k \in {7, 9} -> "DisjointRight"
      [] k = 8 -> "DisjointLeft"
      [] k = 55 -> "ExcessRightTail"

\* The same with 9, which is met after the left input is exhausted, a tail.
AmendedCase(k) == IF k = 9 THEN "ExcessRightTail" ELSE ClaimedCase(k)

\* C3 as stated: in align({0,1,5,8}, {1,5,7,9,55}) the classifier sees 0 as
\* ExcessLeftHead, 1 and 5 as Match, 7 and 9 as DisjointRight, 8 as
\* DisjointLeft and 55 as ExcessRightTail.
C3_AsStated ==
    ExampleRun =>
        \A i \in 1 .. Len(calls) : calls[i].case = ClaimedCase(calls[i].elem.key)

\* C3, amended: in align({0,1,5,8}, {1,5,7,9,55}) the classifier sees 0 as
\* ExcessLeftHead, 1 and 5 as Match, 7 as DisjointRight, 8 as DisjointLeft,
\* and 9 and 55 as ExcessRightTail; a run that returns has seen all seven.
C3_ExampleClassification ==
    ExampleRun =>
        /\ \A i \in 1 .. Len(calls) : calls[i].case = AmendedCase(calls[i].elem.key)
        /\ Returned => KeySeq([i \in 1 .. Len(calls) |-> calls[i].elem])
                           = <<0, 1, 5, 7, 8, 9, 55>>

\* The example run has returned, and all seven elements were classified.
C3_Witness == ExampleRun /\ Returned /\ Len(calls) = 7

\* Every call so far returned the element unchanged (for Match, the left one).
PassThrough == \A i \in 1 .. Len(calls) : calls[i].ret = calls[i].elem

\* C4: align with a classifier that returns every element unchanged produces
\* the sorted union of the inputs (the left instance for a shared key), the
\* same sequence of keys as merge produces from the same inputs.
C4_AlignPassThroughIsUnion ==
    Returned =>
        /\ (op = "align" /\ PassThrough) => vec = UnionPreferLeft
        /\ op = "merge" => KeySeq(vec) = KeySeq(UnionPreferLeft)

\* A pass-through align of overlapping inputs, each with a key of its own,
\* whose instances of the shared key differ.
C4_Witness ==
    /\ op = "align" /\ Returned /\ PassThrough
    /\ KeysOf(self_vec) \ KeysOf(other_vec) # {}
    /\ KeysOf(other_vec) \ KeysOf(self_vec) # {}
    /\ \E k \in SharedKeys : ElemWithKey(self_vec, k) # ElemWithKey(other_vec, k)

\* C5: align calls the classifier in strictly ascending key order, so never
\* twice for an element; each call hands over an element of an input, a
\* shared key as one Match of the left and the right instance; and a run
\* that returns has made |A| + |B| - |shared keys| calls, one for each key.
C5_ClassifierCalledOncePerKey ==
    op = "align" =>
        /\ \A i \in 1 .. Len(calls) : \A j \in 1 .. Len(calls) :
              i < j => calls[i].elem.key < calls[j].elem.key
        /\ \A i \in 1 .. Len(calls) :
              LET c == calls[i] IN
              IF c.elem.key \in SharedKeys
              THEN /\ c.case = "Match"
                   /\ c.elem = ElemWithKey(self_vec, c.elem.key)
                   /\ c.other = ElemWithKey(other_vec, c.elem.key)
              ELSE /\ c.case # "Match"
                   /\ c.other = None
                   /\ c.elem \in Range(self_vec) \cup Range(other_vec)
        /\ Returned =>
              /\ Len(calls) = Len(self_vec) + Len(other_vec) - Cardinality(SharedKeys)
              /\ {calls[i].elem.key : i \in 1 .. Len(calls)} = UnionKeys

\* An align that returned after a Match and calls for keys of one input only.
C5_Witness ==
    /\ op = "align" /\ Returned
    /\ Len(calls) = 3
    /\ \E i \in 1 .. Len(calls) : calls[i].case = "Match"
    /\ Len(self_vec) + Len(other_vec) > 3

\* Call i returned a value that does not compare equal to its element.
UnequalReplacement(i) ==
    calls[i].ret # None /\ ~Eq(calls[i].elem, calls[i].ret)

\* The values the calls cs returned, in call order.
ReturnedValues(cs) ==
    LET kept == SelectSeq(cs, LAMBDA c : c.ret # None)
    IN  [j \in 1 .. Len(kept) |-> kept[j].ret]

\* C6: in align, a replacement that does not compare equal to the element
\* classified aborts the call at once, in each of the seven cases: it is the
\* last call made, its value is not pushed, and no output is returned.
C6_UnequalReplacementAborts ==
    op = "align" =>
        \A i \in 1 .. Len(calls) :
            UnequalReplacement(i) =>
                /\ pc = "panic_eq"
                /\ i = Len(calls)
                /\ vec = ReturnedValues(SubSeq(calls, 1, i - 1))

\* An abort in a tail run, after earlier calls that went through.
C6_Witness ==
    /\ op = "align" /\ pc = "panic_eq"
    /\ Len(calls) >= 3
    /\ calls[Len(calls)].case = "ExcessRightTail"
    /\ calls[Len(calls) - 1].case = "ExcessRightTail"
    /\ UnequalReplacement(Len(calls))

\* C7: inserting an element whose key is already present fails fatally and
\* leaves the sequence as it was.
C7_DuplicateInsertFails ==
    [][(/\ op = "insert"
        /\ Len(calls') = Len(calls) + 1
        /\ calls'[Len(calls')].elem.key \in KeysOf(self_vec))
       => (pc' = "panic_dup" /\ self_vec' = self_vec)]_vars

\* A failed insert of another instance of a key of a sequence of two or more.
C7_Witness ==
    /\ op = "insert" /\ pc = "panic_dup"
    /\ Len(self_vec) >= 2
    /\ calls[Len(calls)].elem \notin Range(self_vec)
    /\ calls[Len(calls)].elem.key \in KeysOf(self_vec)

\* C8: from an empty sequence, after inserts with pairwise distinct keys in
\* any order no insert has failed, the sequence is strictly ascending, holds
\* exactly the inserted elements, and its length is the number of inserts.
C8_InsertKeepsSortedUnique ==
    (/\ op = "insert"
     /\ \A i \in 1 .. Len(calls) : \A j \in 1 .. Len(calls) :
           i # j => calls[i].elem.key # calls[j].elem.key)
    => /\ pc = "idle"
       /\ is_sorted_unique(self_vec)
       /\ Range(self_vec) = {calls[i].elem : i \in 1 .. Len(calls)}
       /\ Len(self_vec) = Len(calls)

\* Three inserts in descending key order.
C8_Witness ==
    /\ op = "insert" /\ pc = "idle"
    /\ Len(calls) = 3
    /\ calls[1].elem.key > calls[2].elem.key
    /\ calls[2].elem.key > calls[3].elem.key

\* C9: merge calls choose_equal exactly once for each shared key, with the
\* left and the right element, and pushes the left instance on Left and the
\* right one on Right; it never calls it for a key of one input only, whose
\* element is pushed unchanged; each key has one element in the output.
C9_TieBreakDecidesSharedKeys ==
    (op = "merge" /\ Returned) =>
        /\ Len(calls) = Cardinality(SharedKeys)
        /\ \A i \in 1 .. Len(calls) : calls[i].elem.key \in SharedKeys
        /\ \A k \in SharedKeys :
              \E i \in 1 .. Len(calls) :
                  /\ calls[i].elem = ElemWithKey(self_vec, k)
                  /\ calls[i].other = ElemWithKey(other_vec, k)
                  /\ ElemWithKey(vec, k) =
                        IF calls[i].ret = "Left" THEN calls[i].elem ELSE calls[i].other
        /\ \A k \in KeysOf(self_vec) \ SharedKeys :
              ElemWithKey(vec, k) = ElemWithKey(self_vec, k)
        /\ \A k \in KeysOf(other_vec) \ SharedKeys :
              ElemWithKey(vec, k) = ElemWithKey(other_vec, k)
        /\ \A k \in UnionKeys : Cardinality({j \in 1 .. Len(vec) : vec[j].key = k}) = 1

\* A merge with one tie broken to the left and one to the right, between
\* instances that differ, and a key of one input only.
C9_Witness ==
    /\ op = "merge" /\ Returned
    /\ UnionKeys # SharedKeys
    /\ \E i \in 1 .. Len(calls) : calls[i].ret = "Left" /\ calls[i].elem # calls[i].other
    /\ \E i \in 1 .. Len(calls) : calls[i].ret = "Right" /\ calls[i].elem # calls[i].other

\* C10: merge(A, A, tie_break) is equal to A, whatever tie_break answers.
C10_MergeWithSelf ==
    (op = "merge" /\ Returned /\ other_vec = self_vec) => vec = self_vec

\* A merge of a sequence of two or more with itself, with both answers given.
C10_Witness ==
    /\ op = "merge" /\ Returned /\ other_vec = self_vec
    /\ Len(self_vec) >= 2
    /\ \E i \in 1 .. Len(calls) : calls[i].ret = "Left"
    /\ \E i \in 1 .. Len(calls) : calls[i].ret = "Right"

\* C11: merge and align never change their two inputs, in a step that goes
\* on, returns or aborts alike; the output is built by appending to a Vec
\* of its own.
C11_InputsNeverMutated ==
    [][(op \in {"merge", "align"}) =>
          (/\ self_vec' = self_vec
           /\ other_vec' = other_vec
           /\ \/ vec' = vec
              \/ Len(vec') = Len(vec) + 1 /\ SubSeq(vec', 1, Len(vec)) = vec)]_vars

\* A merge that has returned elements of both inputs, from a left tail run.
C11_Witness ==
    /\ op = "merge" /\ Returned
    /\ Len(self_vec) >= 2 /\ Len(other_vec) >= 1
    /\ Len(vec) = Len(self_vec) + Len(other_vec)
    /\ vec[Len(vec)] = self_vec[Len(self_vec)]

CaseFromInputs(k) ==
    IF k \in SharedKeys THEN "Match"
    ELSE IF k \in KeysOf(self_vec)
    THEN IF \A r \in KeysOf(other_vec) : r < k THEN "ExcessLeftTail"
         ELSE IF \A r \in KeysOf(other_vec) : r > k THEN "ExcessLeftHead"
         ELSE "DisjointLeft"
    ELSE IF \A l \in KeysOf(self_vec) : l < k THEN "ExcessRightTail"
         ELSE IF \A l \in KeysOf(self_vec) : l > k THEN "ExcessRightHead"
         ELSE "DisjointRight"

\* C13: the output of align is the values the classifier returned, in call
\* order; a vetoed element is absent and changes neither which elements are
\* classified later nor as what; a classifier that returns nothing every
\* time leaves the output empty.
C13_OutputIsReturnedValues ==
    op = "align" =>
        /\ pc # "panic_eq" => vec = ReturnedValues(calls)
        /\ \A i \in 1 .. Len(calls) : calls[i].case = CaseFromInputs(calls[i].elem.key)
        /\ Returned => KeySeq([i \in 1 .. Len(calls) |-> calls[i].elem])
                           = Ascending(UnionKeys)
        /\ (\A i \in 1 .. Len(calls) : calls[i].ret = None) => vec = <<>>

\* A vetoed left head, then a right element kept as DisjointRight, and a
\* third call, in an align that returned.
C13_Witness ==
    /\ op = "align" /\ Returned
    /\ Len(calls) = 3
    /\ calls[1].case = "ExcessLeftHead" /\ calls[1].ret = None
    /\ calls[2].case = "DisjointRight" /\ calls[2].ret # None
    /\ Len(vec) < Len(calls)

\* The elements consumed so far from the left and from the right input.
LeftConsumed == left_iter - 1

RightConsumed == right_iter - 1

\* C14: while both inputs have unconsumed elements, a smaller left element
\* is ExcessLeftHead if and only if the right side has consumed nothing so
\* far, matches included, and DisjointLeft otherwise, and the same with the
\* sides exchanged; in that part of the scan each counter is the number of
\* elements consumed from its side, vetoed or not.
C14_HeadIffOtherSideUntouched ==
    [][(op = "align" /\ pc = "loop") =>
          (/\ left_count = LeftConsumed
           /\ right_count = RightConsumed
           /\ (LeftPeek # None /\ RightPeek # None /\ LeftPeek.key < RightPeek.key) =>
                 /\ Len(calls') = Len(calls) + 1
                 /\ calls'[Len(calls')].elem = LeftPeek
                 /\ calls'[Len(calls')].case =
                        IF RightConsumed = 0 THEN "ExcessLeftHead" ELSE "DisjointLeft"
           /\ (LeftPeek # None /\ RightPeek # None /\ RightPeek.key < LeftPeek.key) =>
                 /\ Len(calls') = Len(calls) + 1
                 /\ calls'[Len(calls')].elem = RightPeek
                 /\ calls'[Len(calls')].case =
                        IF LeftConsumed = 0 THEN "ExcessRightHead" ELSE "DisjointRight")]_vars

\* A left element classified DisjointLeft after nothing but a vetoed Match.
C14_Witness ==
    /\ op = "align"
    /\ Len(calls) = 2
    /\ calls[1].case = "Match" /\ calls[1].ret = None
    /\ calls[2].case = "DisjointLeft"

Tails == {"ExcessLeftTail", "ExcessRightTail"}

\* The elements of s whose keys exceed every key of t, in order.
Beyond(s, t) == SelectSeq(s, LAMBDA e : \A k \in KeysOf(t) : k < e.key)

\* The elements handed over in the calls with Alignment case c, in order.
ElemsClassified(c) ==
    LET cs == SelectSeq(calls, LAMBDA x : x.case = c)
    IN  [i \in 1 .. Len(cs) |-> cs[i].elem]

\* C15: an element is classified ExcessLeftTail exactly when it is a left
\* element met with the right input exhausted, and ExcessRightTail exactly
\* when it is a right element met with the left input exhausted; after a
\* Tail come only Tails of the same side, the lock-step loop is not entered
\* again, and a run that returns has classified every remaining element as
\* Tail, in order.  With one input empty all elements of the other are Tails.
C15_TailRuns ==
    op = "align" =>
        /\ \A i \in 1 .. Len(calls) :
              LET c == calls[i] IN
              /\ c.case = "ExcessLeftTail" <=>
                    (c.elem \in Range(self_vec) /\ \A k \in KeysOf(other_vec) : k < c.elem.key)
              /\ c.case = "ExcessRightTail" <=>
                    (c.elem \in Range(other_vec) /\ \A k \in KeysOf(self_vec) : k < c.elem.key)
        /\ \A i \in 1 .. Len(calls) : \A j \in 1 .. Len(calls) :
              (i < j /\ calls[i].case \in Tails) => calls[j].case = calls[i].case
        /\ (\E i \in 1 .. Len(calls) : calls[i].case \in Tails) => pc # "loop"
        /\ pc = "all_left" => RightPeek = None
        /\ pc = "all_right" => LeftPeek = None
        /\ Returned =>
              /\ ElemsClassified("ExcessLeftTail") = Beyond(self_vec, other_vec)
              /\ ElemsClassified("ExcessRightTail") = Beyond(other_vec, self_vec)
        /\ Len(other_vec) = 0 =>
              \A i \in 1 .. Len(calls) : calls[i].case = "ExcessLeftTail"
        /\ Len(self_vec) = 0 =>
              \A i \in 1 .. Len(calls) : calls[i].case = "ExcessRightTail"

\* A Match that exhausts the right input, then two left elements as Tails.
C15_Witness ==
    /\ op = "align" /\ Returned
    /\ Len(calls) = 3
    /\ calls[1].case = "Match"
    /\ calls[2].case = "ExcessLeftTail"
    /\ calls[3].case = "ExcessLeftTail"

\* merge or align has ended: it returned or it panicked.
Ended == pc \in {"done", "panic_eq", "panic_sorted"}

Exhausted == LeftPeek = None /\ RightPeek = None

\* C16: merge and align end, for every input and all closure answers; each
\* step before the end consumes at least one element and never steps an
\* iterator back; the scan ends as soon as both inputs are exhausted, and a
\* run that returns has exhausted both.
C16_Terminates ==
    /\ <>Ended
    /\ [](Returned => Exhausted)
    /\ [][/\ left_iter' >= left_iter
          /\ right_iter' >= right_iter
          /\ IF Exhausted
             THEN pc' \in {"done", "panic_sorted"}
             ELSE /\ left_iter' + right_iter' > left_iter + right_iter
                  /\ pc' # "done"]_vars

\* An align that returned after five elements in three iterations and a tail.
C16_Witness ==
    /\ op = "align" /\ Returned
    /\ Len(self_vec) + Len(other_vec) = 5
    /\ Len(calls) = 3
    /\ left_iter = Len(self_vec) + 1
    /\ right_iter = Len(other_vec) + 1

Heads == {"ExcessLeftHead", "ExcessRightHead"}

CasesSeen == {calls[i].case : i \in 1 .. Len(calls)}

\* C17: in a run of align the Head classifications come before every other
\* classification and the Tail classifications after every other; heads are
\* all of one side, and so are tails.
C17_ClassificationsArePhased ==
    op = "align" =>
        /\ \A i \in 1 .. Len(calls) : \A j \in 1 .. Len(calls) :
              (i < j /\ calls[j].case \in Heads) => calls[i].case \in Heads
        /\ \A i \in 1 .. Len(calls) : \A j \in 1 .. Len(calls) :
              (i < j /\ calls[i].case \in Tails) => calls[j].case \in Tails
        /\ ~(Heads \subseteq CasesSeen)
        /\ ~(Tails \subseteq CasesSeen)

\* A Head, then a Match, then a Tail, in an align that returned.
C17_Witness ==
    /\ op = "align" /\ Returned
    /\ Len(calls) = 3
    /\ calls[1].case = "ExcessRightHead"
    /\ calls[2].case = "Match"
    /\ calls[3].case = "ExcessLeftTail"

\* The arguments and locals of the method align of lib.rs, as a record.
MethodLocals ==
    [a |-> self_vec, b |-> other_vec, vec |-> vec, left_iter |-> left_iter,
     right_iter |-> right_iter, left_count |-> left_count,
     right_count |-> right_count, pc |-> pc, calls |-> calls]

\* What the classifier returned in the step, if the step called it.
ReturnedInStep ==
    IF Len(calls') > Len(calls) THEN calls'[Len(calls')].ret ELSE None

\* C18: the method align of lib.rs and the free function align of align.rs
\* start in the same state, and from the same state with the same classifier
\* answer each takes exactly the step the other takes: the same Alignment
\* case with the same elements, the same abort, the same output.
C18_FreeFunctionEquivalent ==
    /\ (op = "align") => MethodLocals = align_start(self_vec, other_vec)
    /\ [][(op = "align") =>
             align_step(MethodLocals, ReturnedInStep) = {MethodLocals'}]_vars
    /\ [](op = "align" =>
             \A ret \in OptionT : \A t \in align_step(MethodLocals, ret) :
                 ENABLED (Next /\ MethodLocals' = t))

\* A state both reach after a kept head, a vetoed Match and a kept tail, from
\* which neither has a step left.
C18_Witness ==
    /\ op = "align" /\ Returned
    /\ Len(calls) = 3 /\ Len(vec) = 2
    /\ calls[2].case = "Match" /\ calls[2].ret = None
    /\ \A ret \in OptionT : align_step(MethodLocals, ret) = {}

============================================================================
